---- MODULE Spec2Model ----
(***************************************************************************)
(* Request handlers of src/api/index.go (project-manager-backend) and the  *)
(* store procedures they call.  A handler is a sequence of steps of one    *)
(* request; the store (the PostgreSQL schema project_manager behind the    *)
(* global handle db) is the only state requests share.                     *)
(***************************************************************************)
EXTENDS Integers, Sequences, FiniteSets, TLC

\* ------------------------------------------------------------- bounds
\* Number of request slots that may be in flight together.
NumReqs == 2
\* Longest userRoles list of a NewProject / AlterProject payload.
MaxRoles == 2

Reqs == 1..NumReqs
\* The slot used by the specifications that serve one request.
FirstReq == CHOOSE r \in Reqs : \A q \in Reqs : r <= q

\* ------------------------------------------------------ value domains
\* A JSON field that may be missing, and a Go pointer field (nil or &v).
None == <<>>
Some(v) == <<v>>
\* Zero values Go leaves in a struct field the JSON body did not supply.
ZeroString == ""
ZeroTime == "0001-01-01T00:00:00Z"
ZeroInt == 0
OrZero(o, z) == IF o = None THEN z ELSE o[1]

\* User ids known to the store, and the ids a payload may name (3 is unknown).
Users == {1, 2}
UserIds == {1, 2, 3}
RoleIds == {1, 2}

\* HTTP statuses used by the handlers.
StatusOK == 200
StatusBadRequest == 400
StatusInternalServerError == 500

\* Response texts.
MsgInvalidInput == "Invalid input"
MsgCreateFailed == "Failed to create project"
MsgRoleFailedAsCreate == "Failed to create project"
MsgRoleFailed == "Project created successfully but Failed to set user project role"
MsgProjectCreated == "Project created successfully"
MsgUpdateFailed == "Failed to update project"

VARIABLES
    db,             \* the store behind the global handle db
    body,           \* body[r]: the JSON body request r arrived with
    pc,             \* pc[r]: where request r stands in its handler
    handler,        \* handler[r]: the route that serves request r
    input,          \* input[r]: the struct BindJSON filled for request r
    projectIdTemp,  \* projectIdTemp[r]: the id Scan wrote (postNewProject), or *ap.ProjectId
    idx,            \* idx[r]: position of the range loop over UserRoles (1-based)
    resp,           \* resp[r]: the responses written to request r's connection
    calls           \* calls[r]: the store calls request r has issued, in order

vars == <<db, body, pc, handler, input, projectIdTemp, idx, resp, calls>>

\* ------------------------------------------------------------ responses
\* c.JSON(status, gin.H{"error": msg}): a JSON object with the one key "error".
ErrorJSON(status, msg) == [status |-> status, json |-> [error |-> msg]]
\* c.IndentedJSON(status, "text"): a bare JSON string.
TextJSON(status, msg) == [status |-> status, json |-> [text |-> msg]]
\* c.IndentedJSON(status, gin.H{"message": msg}).
MessageJSON(status, msg) == [status |-> status, json |-> [message |-> msg]]

\* What gin's Recovery middleware writes after a panic: the status, no body.
Recovered == [status |-> StatusInternalServerError, json |-> [none |-> ""]]

\* checkErr: with a non-nil err, writes the error response for the two statuses
\* it knows and aborts; the result is what it appends to the connection.
checkErr(errType, err, errMsg) ==
    IF err
    THEN IF errType = StatusInternalServerError
         THEN <<ErrorJSON(StatusInternalServerError, errMsg)>>
         ELSE IF errType = StatusBadRequest
              THEN <<ErrorJSON(StatusBadRequest, errMsg)>>
              ELSE <<>>
    ELSE <<>>

\* ---------------------------------------------------------------- store
\* One store call as request r's log keeps it.
Call(proc, args, ok) == [proc |-> proc, args |-> args, ok |-> ok]

\* The id the store gives the next project: ids are assigned in creation order.
NextProjectId(d) == Cardinality(DOMAIN d.projects) + 1

\* project_manager.post_new_project($1..$5): name, description, created_by,
\* target_date, pic_id.  The start date is not a parameter; the store fills it.
StoreStartDate == "store-default"
post_new_project(d, a) ==
    [d EXCEPT !.projects =
        [i \in DOMAIN d.projects \cup {NextProjectId(d)} |->
            IF i \in DOMAIN d.projects THEN d.projects[i]
            ELSE [name |-> a.name, description |-> a.description,
                  createdBy |-> a.createdBy, startDate |-> StoreStartDate,
                  targetDate |-> a.targetDate, picId |-> a.picId]]]

\* project_manager.put_alter_project($1..$5): id, name, description,
\* target_date, pic_id; a NULL parameter leaves the column as it is.
put_alter_project_pre(d, a) == a.id # None /\ a.id[1] \in DOMAIN d.projects
put_alter_project(d, a) ==
    [d EXCEPT !.projects[a.id[1]] =
        [@ EXCEPT !.name = OrZero(a.name, @),
                  !.description = OrZero(a.description, @),
                  !.targetDate = OrZero(a.targetDate, @),
                  !.picId = OrZero(a.picId, @)]]

\* project_manager.alter_user_project_role($1..$4): project id, role id,
\* users removed, users added: removes, then adds, for the one relation.
alter_user_project_role_pre(d, a) ==
    a.projectId \in DOMAIN d.projects /\ a.usersAdded \subseteq Users
alter_user_project_role(d, a) ==
    [d EXCEPT !.user_project_role =
        (@ \ {<<a.projectId, a.roleId, u>> : u \in a.usersRemoved})
            \cup {<<a.projectId, a.roleId, u>> : u \in a.usersAdded}]

\* The members of one (project, role) relation.
Members(d, p, ro) == {u \in UserIds : <<p, ro, u>> \in d.user_project_role}

\* ------------------------------------------------------------- payloads
\* BindJSON into NewProject: a field the body lacks keeps Go's zero value (the
\* struct carries no binding:"required" tag); only a body that is not valid
\* JSON for the struct makes BindJSON fail.
BindNewProject(b) ==
    [ProjectName |-> OrZero(b.projectName, ZeroString),
     Description |-> OrZero(b.description, ZeroString),
     CreatedBy   |-> OrZero(b.createdBy, ZeroInt),
     StartDate   |-> OrZero(b.startDate, ZeroTime),
     TargetDate  |-> OrZero(b.targetDate, ZeroTime),
     PicId       |-> OrZero(b.picId, ZeroInt),
     UserRoles   |-> b.userRoles]

\* BindJSON into AlterProject: every scalar field is a pointer, nil when the
\* body lacks it.
BindAlterProject(b) ==
    [ProjectId   |-> b.projectId,
     ProjectName |-> b.projectName,
     Description |-> b.description,
     StartDate   |-> b.startDate,
     TargetDate  |-> b.targetDate,
     PicId       |-> b.picId,
     UserRoles   |-> b.userRoles]

\* The parameters postNewProject hands to post_new_project.
PostNewProjectArgsSwapped(np) ==
    [name |-> np.Description, description |-> np.ProjectName,
     createdBy |-> np.CreatedBy, targetDate |-> np.TargetDate, picId |-> np.PicId]
PostNewProjectArgs(np) ==
    [name |-> np.ProjectName, description |-> np.Description,
     createdBy |-> np.CreatedBy, targetDate |-> np.TargetDate, picId |-> np.PicId]

\* The parameters putAlterProject hands to put_alter_project.
PutAlterProjectArgsSwapped(ap) ==
    [id |-> ap.ProjectId, name |-> ap.Description, description |-> ap.ProjectName,
     targetDate |-> ap.TargetDate, picId |-> ap.PicId]
PutAlterProjectArgs(ap) ==
    [id |-> ap.ProjectId, name |-> ap.ProjectName, description |-> ap.Description,
     targetDate |-> ap.TargetDate, picId |-> ap.PicId]

\* The parameters AlterUserProjectRole hands to alter_user_project_role.
AlterUserProjectRoleSwapped(alterTarget) ==
    [projectId |-> alterTarget.ProjectId, roleId |-> alterTarget.RoleId,
     usersRemoved |-> alterTarget.UsersAdded, usersAdded |-> alterTarget.UsersRemoved]
AlterUserProjectRole(alterTarget) ==
    [projectId |-> alterTarget.ProjectId, roleId |-> alterTarget.RoleId,
     usersRemoved |-> alterTarget.UsersRemoved, usersAdded |-> alterTarget.UsersAdded]

\* The test of the range loops: only a delta that adds and removes nothing is applied.
QualifiesAnyAdd(userRole) == Cardinality(userRole.UsersAdded) # 0
QualifiesNonEmpty(userRole) ==
    Cardinality(userRole.UsersAdded) # 0 \/ Cardinality(userRole.UsersRemoved) # 0
Qualifies(userRole) ==
    Cardinality(userRole.UsersAdded) # 0 /\ Cardinality(userRole.UsersRemoved) = 0

\* userRole.ProjectId = projectIdTemp (and = *ap.ProjectId in putAlterProject).
BindProjectIdKept(userRole, id) == userRole
BindProjectId(userRole, id) == [userRole EXCEPT !.ProjectId = id]

\* Where a handler stands after checkErr on a failed parent call: it returns.
FallThroughAfterParentError == "reconciling"
ReturnAfterParentError == "done"

\* Where a range loop stands after checkErr on a failed role call: the return
\* leaves the loop at the failing element; without it the loop would go on to
\* the next element.
ContinueAfterRoleError == [pc |-> "reconciling", advance |-> 1]
ReturnAfterRoleError == [pc |-> "done", advance |-> 0]

\* ------------------------------------------------------------- handlers
Finish(r, rs) ==
    /\ resp' = [resp EXCEPT ![r] = @ \o rs]
    /\ pc' = [pc EXCEPT ![r] = "done"]

\* postNewProject up to the end of the QueryRow/Scan of post_new_project.
PostNewProjectCreate(r, b) ==
    /\ pc[r] = "idle"
    /\ handler' = [handler EXCEPT ![r] = "postNewProject"]
    /\ body' = [body EXCEPT ![r] = b]
    /\ IF ~b.wellFormed
       THEN /\ Finish(r, checkErr(StatusBadRequest, TRUE, MsgInvalidInput))
            /\ UNCHANGED <<db, input, projectIdTemp, idx, calls>>
       ELSE LET np == BindNewProject(b)
                a == PostNewProjectArgs(np)
            IN  /\ input' = [input EXCEPT ![r] = np]
                /\ \E ok \in BOOLEAN :
                    /\ calls' = [calls EXCEPT ![r] = Append(@, Call("post_new_project", a, ok))]
                    /\ IF ok
                       THEN /\ db' = post_new_project(db, a)
                            /\ projectIdTemp' = [projectIdTemp EXCEPT ![r] = NextProjectId(db)]
                            /\ pc' = [pc EXCEPT ![r] = "reconciling"]
                            /\ UNCHANGED <<resp, idx>>
                       ELSE /\ resp' = [resp EXCEPT ![r] =
                                   @ \o checkErr(StatusBadRequest, TRUE, MsgCreateFailed)]
                            /\ pc' = [pc EXCEPT ![r] = ReturnAfterParentError]
                            /\ UNCHANGED <<db, projectIdTemp, idx>>

\* One iteration of postNewProject's range over np.UserRoles, or, past the last
\* element, the success response.
PostNewProjectRange(r) ==
    /\ pc[r] = "reconciling"
    /\ handler[r] = "postNewProject"
    /\ UNCHANGED <<body, handler, input, projectIdTemp>>
    /\ IF idx[r] > Len(input[r].UserRoles)
       THEN /\ Finish(r, <<TextJSON(StatusOK, MsgProjectCreated)>>)
            /\ UNCHANGED <<db, idx, calls>>
       ELSE LET userRole == input[r].UserRoles[idx[r]] IN
            IF Qualifies(userRole)
            THEN LET a == AlterUserProjectRole(BindProjectId(userRole, projectIdTemp[r])) IN
                 \E ok \in BOOLEAN :
                    /\ ok => alter_user_project_role_pre(db, a)
                    /\ calls' = [calls EXCEPT ![r] =
                                    Append(@, Call("alter_user_project_role", a, ok))]
                    /\ IF ok
                       THEN /\ db' = alter_user_project_role(db, a)
                            /\ idx' = [idx EXCEPT ![r] = @ + 1]
                            /\ UNCHANGED <<pc, resp>>
                       ELSE /\ resp' = [resp EXCEPT ![r] =
                                   @ \o checkErr(StatusBadRequest, TRUE, MsgRoleFailed)]
                            /\ pc' = [pc EXCEPT ![r] = ReturnAfterRoleError.pc]
                            /\ idx' = [idx EXCEPT ![r] = @ + ReturnAfterRoleError.advance]
                            /\ UNCHANGED db
            ELSE /\ idx' = [idx EXCEPT ![r] = @ + 1]
                 /\ UNCHANGED <<db, pc, resp, calls>>

\* putAlterProject up to the end of the Exec of put_alter_project.
PutAlterProjectUpdate(r, b) ==
    /\ pc[r] = "idle"
    /\ handler' = [handler EXCEPT ![r] = "putAlterProject"]
    /\ body' = [body EXCEPT ![r] = b]
    /\ UNCHANGED <<projectIdTemp, idx>>
    /\ IF ~b.wellFormed
       THEN /\ Finish(r, checkErr(StatusBadRequest, TRUE, MsgInvalidInput))
            /\ UNCHANGED <<db, input, calls>>
       ELSE LET ap == BindAlterProject(b)
                a == PutAlterProjectArgs(ap)
            IN  /\ input' = [input EXCEPT ![r] = ap]
                /\ \E ok \in BOOLEAN :
                    /\ ok => put_alter_project_pre(db, a)
                    /\ calls' = [calls EXCEPT ![r] = Append(@, Call("put_alter_project", a, ok))]
                    /\ IF ok
                       THEN /\ db' = put_alter_project(db, a)
                            /\ pc' = [pc EXCEPT ![r] = "reconciling"]
                            /\ UNCHANGED resp
                       ELSE /\ resp' = [resp EXCEPT ![r] =
                                   @ \o checkErr(StatusBadRequest, TRUE, MsgUpdateFailed)]
                            /\ pc' = [pc EXCEPT ![r] = ReturnAfterParentError]
                            /\ UNCHANGED db

\* One iteration of putAlterProject's range over ap.UserRoles, or, past the last
\* element, the success response.  *ap.ProjectId on a nil pointer panics; gin's
\* Recovery middleware (gin.Default) answers 500 with no body.
PutAlterProjectRange(r) ==
    /\ pc[r] = "reconciling"
    /\ handler[r] = "putAlterProject"
    /\ UNCHANGED <<body, handler, input, projectIdTemp>>
    /\ IF idx[r] > Len(input[r].UserRoles)
       THEN /\ Finish(r, <<TextJSON(StatusOK, MsgProjectCreated)>>)
            /\ UNCHANGED <<db, idx, calls>>
       ELSE LET userRole == input[r].UserRoles[idx[r]] IN
            IF Qualifies(userRole)
            THEN IF input[r].ProjectId = None
                 THEN /\ Finish(r, <<Recovered>>)
                      /\ UNCHANGED <<db, idx, calls>>
                 ELSE LET a == AlterUserProjectRole(BindProjectId(userRole, input[r].ProjectId[1])) IN
                      \E ok \in BOOLEAN :
                        /\ ok => alter_user_project_role_pre(db, a)
                        /\ calls' = [calls EXCEPT ![r] =
                                        Append(@, Call("alter_user_project_role", a, ok))]
                        /\ IF ok
                           THEN /\ db' = alter_user_project_role(db, a)
                                /\ idx' = [idx EXCEPT ![r] = @ + 1]
                                /\ UNCHANGED <<pc, resp>>
                           ELSE /\ resp' = [resp EXCEPT ![r] =
                                       @ \o checkErr(StatusBadRequest, TRUE, MsgRoleFailed)]
                                /\ pc' = [pc EXCEPT ![r] = ReturnAfterRoleError.pc]
                                /\ idx' = [idx EXCEPT ![r] = @ + ReturnAfterRoleError.advance]
                                /\ UNCHANGED db
            ELSE /\ idx' = [idx EXCEPT ![r] = @ + 1]
                 /\ UNCHANGED <<db, pc, resp, calls>>

\* BindJSON into UserRoleChange.
BindUserRoleChange(b) ==
    [RoleId       |-> OrZero(b.roleId, ZeroInt),
     ProjectId    |-> OrZero(b.projectId, ZeroInt),
     UsersAdded   |-> b.usersAdded,
     UsersRemoved |-> b.usersRemoved]

MsgAlterRoleFailed == "Failed to alter user project role"
MsgAlterRoleOK == "Succesfully altered user project role"

\* putUserProjectRole after the bind: the call of AlterUserProjectRole and the
\* response to its result.
PutUserProjectRoleAlter(r, alterTarget) ==
    LET a == AlterUserProjectRole(alterTarget) IN
    \E ok \in BOOLEAN :
        /\ ok => alter_user_project_role_pre(db, a)
        /\ calls' = [calls EXCEPT ![r] = Append(@, Call("alter_user_project_role", a, ok))]
        /\ IF ok
           THEN /\ db' = alter_user_project_role(db, a)
                /\ Finish(r, <<TextJSON(StatusOK, MsgAlterRoleOK)>>)
           ELSE /\ Finish(r, checkErr(StatusBadRequest, TRUE, MsgAlterRoleFailed))
                /\ UNCHANGED db

PutUserProjectRoleSkipEmpty(r, b) ==
    /\ pc[r] = "idle"
    /\ handler' = [handler EXCEPT ![r] = "putUserProjectRole"]
    /\ body' = [body EXCEPT ![r] = b]
    /\ UNCHANGED <<projectIdTemp, idx>>
    /\ IF ~b.wellFormed
       THEN /\ Finish(r, checkErr(StatusBadRequest, TRUE, MsgInvalidInput))
            /\ UNCHANGED <<db, input, calls>>
       ELSE /\ input' = [input EXCEPT ![r] = BindUserRoleChange(b)]
            /\ IF b.usersAdded = {} /\ b.usersRemoved = {}
               THEN /\ Finish(r, <<TextJSON(StatusOK, MsgAlterRoleOK)>>)
                    /\ UNCHANGED <<db, calls>>
               ELSE PutUserProjectRoleAlter(r, BindUserRoleChange(b))

\* putUserProjectRole: bind, AlterUserProjectRole, respond.
PutUserProjectRole(r, b) ==
    /\ pc[r] = "idle"
    /\ handler' = [handler EXCEPT ![r] = "putUserProjectRole"]
    /\ body' = [body EXCEPT ![r] = b]
    /\ UNCHANGED <<projectIdTemp, idx>>
    /\ IF ~b.wellFormed
       THEN /\ Finish(r, checkErr(StatusBadRequest, TRUE, MsgInvalidInput))
            /\ UNCHANGED <<db, input, calls>>
       ELSE /\ input' = [input EXCEPT ![r] = BindUserRoleChange(b)]
            /\ PutUserProjectRoleAlter(r, BindUserRoleChange(b))

\* ------------------------------------------------ backlog and work store
NextBacklogId(d) == Cardinality(DOMAIN d.backlogs) + 1
NextWorkId(d) == Cardinality(DOMAIN d.works) + 1

\* project_manager.post_new_backlog($1..$8); the project must exist.
post_new_backlog_pre(d, a) == a.projectId \in DOMAIN d.projects
post_new_backlog(d, a) ==
    [d EXCEPT !.backlogs =
        [i \in DOMAIN d.backlogs \cup {NextBacklogId(d)} |->
            IF i \in DOMAIN d.backlogs THEN d.backlogs[i] ELSE a]]

\* project_manager.put_alter_backlog($1..$7); a NULL parameter leaves the column.
put_alter_backlog_pre(d, a) == a.id \in DOMAIN d.backlogs
put_alter_backlog(d, a) ==
    [d EXCEPT !.backlogs[a.id] =
        [@ EXCEPT !.name = OrZero(a.name, @),
                  !.description = OrZero(a.description, @),
                  !.startDate = OrZero(a.startDate, @),
                  !.targetDate = OrZero(a.targetDate, @),
                  !.picId = OrZero(a.picId, @),
                  !.priorityId = OrZero(a.priorityId, @)]]

\* project_manager.post_new_work($1..$13); the backlog and the assigned users must
\* exist.  The row keeps the scalar parameters, the assignment relation the users.
post_new_work_pre(d, a) == a.backlogId \in DOMAIN d.backlogs /\ a.usersAdded \subseteq Users
post_new_work(d, a) ==
    [d EXCEPT
        !.works = [i \in DOMAIN d.works \cup {NextWorkId(d)} |->
                      IF i \in DOMAIN d.works THEN d.works[i]
                      ELSE [backlogId |-> a.backlogId, name |-> a.name,
                            priorityId |-> a.priorityId, picId |-> a.picId,
                            description |-> a.description,
                            currentState |-> a.currentState, createdBy |-> a.createdBy,
                            targetDate |-> a.targetDate, startDate |-> a.startDate,
                            trackerId |-> a.trackerId, activityId |-> a.activityId,
                            estimatedHours |-> a.estimatedHours]],
        !.user_work_assignment = @ \cup {<<NextWorkId(d), u>> : u \in a.usersAdded}]

\* project_manager.alter_user_work_assignment($1..$3): work id, users removed,
\* users added: removes, then adds.
alter_user_work_assignment_pre(d, a) ==
    a.workId \in DOMAIN d.works /\ a.usersAdded \subseteq Users
alter_user_work_assignment(d, a) ==
    [d EXCEPT !.user_work_assignment =
        (@ \ {<<a.workId, u>> : u \in a.usersRemoved})
            \cup {<<a.workId, u>> : u \in a.usersAdded}]

\* project_manager.put_alter_work($1..$13): a NULL parameter leaves the column;
\* the last two parameters reconcile the assignment relation.
put_alter_work_pre(d, a) == a.workId \in DOMAIN d.works /\ a.usersAdded \subseteq Users
put_alter_work(d, a) ==
    [alter_user_work_assignment(d, a) EXCEPT !.works[a.workId] =
        [@ EXCEPT !.name = OrZero(a.name, @),
                  !.description = OrZero(a.description, @),
                  !.startDate = OrZero(a.startDate, @),
                  !.targetDate = OrZero(a.targetDate, @),
                  !.currentState = OrZero(a.currentState, @),
                  !.picId = IF a.picId = None THEN @ ELSE a.picId,
                  !.priorityId = OrZero(a.priorityId, @),
                  !.estimatedHours = OrZero(a.estimatedHours, @),
                  !.trackerId = OrZero(a.trackerId, @),
                  !.activityId = OrZero(a.activityId, @)]]

\* --------------------------------------------- backlog and work handlers
MsgBacklogCreateFailed == "Failed to create backlog"
MsgBacklogCreated == "Backlog created successfully"
MsgBacklogUpdateFailed == "Failed to update backlog"
MsgBacklogUpdated == "Backlog updated successfully"
MsgWorkCreateFailed == "Failed to create work"
MsgWorkCreated == "Work created successfully"
MsgInvalidInputFormat == "Invalid input format"
MsgWorkAlterFailed == "Failed to alter work details"
MsgWorkAltered == "Successfully altered work assignment"
MsgAssignFailed == "Failed to alter user work assignment"
MsgAssigned == "Succesfully altered user work assignment"

BindNewBacklog(b) ==
    [ProjectId   |-> OrZero(b.projectId, ZeroInt),
     BacklogName |-> OrZero(b.backlogName, ZeroString),
     Description |-> OrZero(b.description, ZeroString),
     StartDate   |-> OrZero(b.startDate, ZeroTime),
     TargetDate  |-> OrZero(b.targetDate, ZeroTime),
     CreatedBy   |-> OrZero(b.createdBy, ZeroInt),
     PicId       |-> OrZero(b.picId, ZeroInt),
     PriorityId  |-> OrZero(b.priorityId, ZeroInt)]

\* AlterBacklog: BacklogId is a plain int, the other fields are pointers.
BindAlterBacklog(b) ==
    [BacklogId   |-> OrZero(b.backlogId, ZeroInt),
     BacklogName |-> b.backlogName,
     Description |-> b.description,
     StartDate   |-> b.startDate,
     TargetDate  |-> b.targetDate,
     PicId       |-> b.picId,
     PriorityId  |-> b.priorityId]

\* NewWork: PicId is a pointer, the other fields are plain values.
BindNewWork(b) ==
    [BacklogId      |-> OrZero(b.backlogId, ZeroInt),
     WorkName       |-> OrZero(b.workName, ZeroString),
     Description    |-> OrZero(b.description, ZeroString),
     StartDate      |-> OrZero(b.startDate, ZeroTime),
     TargetDate     |-> OrZero(b.targetDate, ZeroTime),
     PicId          |-> b.picId,
     CurrentState   |-> OrZero(b.currentState, ZeroInt),
     CreatedBy      |-> OrZero(b.createdBy, ZeroInt),
     PriorityId     |-> OrZero(b.priorityId, ZeroInt),
     EstimatedHours |-> OrZero(b.estimatedHours, ZeroInt),
     TrackerId      |-> OrZero(b.trackerId, ZeroInt),
     ActivityId     |-> OrZero(b.activityId, ZeroInt),
     UsersAdded     |-> b.usersAdded]

\* AlterWork: WorkId is a plain int, the other scalar fields are pointers.
BindAlterWork(b) ==
    [WorkId         |-> OrZero(b.workId, ZeroInt),
     WorkName       |-> b.workName,
     Description    |-> b.description,
     StartDate      |-> b.startDate,
     TargetDate     |-> b.targetDate,
     PicId          |-> b.picId,
     CurrentState   |-> b.currentState,
     PriorityId     |-> b.priorityId,
     EstimatedHours |-> b.estimatedHours,
     TrackerId      |-> b.trackerId,
     ActivityId     |-> b.activityId,
     UsersRemoved   |-> b.usersRemoved,
     UsersAdded     |-> b.usersAdded]

BindUserWorkChange(b) ==
    [WorkId       |-> OrZero(b.workId, ZeroInt),
     UsersAdded   |-> b.usersAdded,
     UsersRemoved |-> b.usersRemoved]

\* The parameters postNewBacklog hands to post_new_backlog.
PostNewBacklogArgs(nb) ==
    [projectId |-> nb.ProjectId, name |-> nb.BacklogName, description |-> nb.Description,
     startDate |-> nb.StartDate, targetDate |-> nb.TargetDate, createdBy |-> nb.CreatedBy,
     picId |-> nb.PicId, priorityId |-> nb.PriorityId]

\* The parameters putAlterBacklog hands to put_alter_backlog.
PutAlterBacklogArgs(t) ==
    [id |-> t.BacklogId, name |-> t.BacklogName, description |-> t.Description,
     startDate |-> t.StartDate, targetDate |-> t.TargetDate, picId |-> t.PicId,
     priorityId |-> t.PriorityId]

\* The parameters postNewWork hands to post_new_work.
PostNewWorkArgs(nw) ==
    [backlogId |-> nw.BacklogId, name |-> nw.WorkName, priorityId |-> nw.PriorityId,
     picId |-> nw.PicId, description |-> nw.Description, currentState |-> nw.CurrentState,
     createdBy |-> nw.CreatedBy, targetDate |-> nw.TargetDate, startDate |-> nw.StartDate,
     trackerId |-> nw.TrackerId, activityId |-> nw.ActivityId,
     usersAdded |-> nw.UsersAdded, estimatedHours |-> nw.EstimatedHours]

\* The parameters putAlterWork hands to put_alter_work.
PutAlterWorkArgs(t) ==
    [workId |-> t.WorkId, name |-> t.WorkName, description |-> t.Description,
     startDate |-> t.StartDate, targetDate |-> t.TargetDate,
     currentState |-> t.CurrentState, picId |-> t.PicId, priorityId |-> t.PriorityId,
     estimatedHours |-> t.EstimatedHours, trackerId |-> t.TrackerId,
     activityId |-> t.ActivityId, usersRemoved |-> t.UsersRemoved,
     usersAdded |-> t.UsersAdded]

\* The parameters putAlterUserWorkAssignment hands to alter_user_work_assignment.
PutAlterUserWorkAssignmentArgs(t) ==
    [workId |-> t.WorkId, usersRemoved |-> t.UsersRemoved, usersAdded |-> t.UsersAdded]

\* A handler that binds the body, issues one Exec and answers: the bind error,
\* the Exec error (status errType, text errMsg) or the success response.
postNewBacklog(r, b) ==
    /\ pc[r] = "idle"
    /\ handler' = [handler EXCEPT ![r] = "postNewBacklog"]
    /\ body' = [body EXCEPT ![r] = b]
    /\ UNCHANGED <<projectIdTemp, idx>>
    /\ IF ~b.wellFormed
       THEN /\ Finish(r, checkErr(StatusBadRequest, TRUE, MsgInvalidInput))
            /\ UNCHANGED <<db, input, calls>>
       ELSE LET a == PostNewBacklogArgs(BindNewBacklog(b)) IN
            /\ input' = [input EXCEPT ![r] = BindNewBacklog(b)]
            /\ \E ok \in BOOLEAN :
                /\ ok => post_new_backlog_pre(db, a)
                /\ calls' = [calls EXCEPT ![r] = Append(@, Call("post_new_backlog", a, ok))]
                /\ IF ok
                   THEN /\ db' = post_new_backlog(db, a)
                        /\ Finish(r, <<TextJSON(StatusOK, MsgBacklogCreated)>>)
                   ELSE /\ Finish(r, checkErr(StatusBadRequest, TRUE, MsgBacklogCreateFailed))
                        /\ UNCHANGED db

putAlterBacklog(r, b) ==
    /\ pc[r] = "idle"
    /\ handler' = [handler EXCEPT ![r] = "putAlterBacklog"]
    /\ body' = [body EXCEPT ![r] = b]
    /\ UNCHANGED <<projectIdTemp, idx>>
    /\ IF ~b.wellFormed
       THEN /\ Finish(r, checkErr(StatusBadRequest, TRUE, MsgInvalidInput))
            /\ UNCHANGED <<db, input, calls>>
       ELSE LET a == PutAlterBacklogArgs(BindAlterBacklog(b)) IN
            /\ input' = [input EXCEPT ![r] = BindAlterBacklog(b)]
            /\ \E ok \in BOOLEAN :
                /\ ok => put_alter_backlog_pre(db, a)
                /\ calls' = [calls EXCEPT ![r] = Append(@, Call("put_alter_backlog", a, ok))]
                /\ IF ok
                   THEN /\ db' = put_alter_backlog(db, a)
                        /\ Finish(r, <<MessageJSON(StatusOK, MsgBacklogUpdated)>>)
                   ELSE /\ Finish(r, checkErr(StatusBadRequest, TRUE, MsgBacklogUpdateFailed))
                        /\ UNCHANGED db

postNewWork(r, b) ==
    /\ pc[r] = "idle"
    /\ handler' = [handler EXCEPT ![r] = "postNewWork"]
    /\ body' = [body EXCEPT ![r] = b]
    /\ UNCHANGED <<projectIdTemp, idx>>
    /\ IF ~b.wellFormed
       THEN /\ Finish(r, checkErr(StatusBadRequest, TRUE, MsgInvalidInput))
            /\ UNCHANGED <<db, input, calls>>
       ELSE LET a == PostNewWorkArgs(BindNewWork(b)) IN
            /\ input' = [input EXCEPT ![r] = BindNewWork(b)]
            /\ \E ok \in BOOLEAN :
                /\ ok => post_new_work_pre(db, a)
                /\ calls' = [calls EXCEPT ![r] = Append(@, Call("post_new_work", a, ok))]
                /\ IF ok
                   THEN /\ db' = post_new_work(db, a)
                        /\ Finish(r, <<TextJSON(StatusOK, MsgWorkCreated)>>)
                   ELSE /\ Finish(r, checkErr(StatusBadRequest, TRUE, MsgWorkCreateFailed))
                        /\ UNCHANGED db

putAlterWork(r, b) ==
    /\ pc[r] = "idle"
    /\ handler' = [handler EXCEPT ![r] = "putAlterWork"]
    /\ body' = [body EXCEPT ![r] = b]
    /\ UNCHANGED <<projectIdTemp, idx>>
    /\ IF ~b.wellFormed
       THEN /\ Finish(r, checkErr(StatusBadRequest, TRUE, MsgInvalidInputFormat))
            /\ UNCHANGED <<db, input, calls>>
       ELSE LET a == PutAlterWorkArgs(BindAlterWork(b)) IN
            /\ input' = [input EXCEPT ![r] = BindAlterWork(b)]
            /\ \E ok \in BOOLEAN :
                /\ ok => put_alter_work_pre(db, a)
                /\ calls' = [calls EXCEPT ![r] = Append(@, Call("put_alter_work", a, ok))]
                /\ IF ok
                   THEN /\ db' = put_alter_work(db, a)
                        /\ Finish(r, <<MessageJSON(StatusOK, MsgWorkAltered)>>)
                   ELSE /\ Finish(r, checkErr(StatusInternalServerError, TRUE, MsgWorkAlterFailed))
                        /\ UNCHANGED db

putAlterUserWorkAssignment(r, b) ==
    /\ pc[r] = "idle"
    /\ handler' = [handler EXCEPT ![r] = "putAlterUserWorkAssignment"]
    /\ body' = [body EXCEPT ![r] = b]
    /\ UNCHANGED <<projectIdTemp, idx>>
    /\ IF ~b.wellFormed
       THEN /\ Finish(r, checkErr(StatusBadRequest, TRUE, MsgInvalidInput))
            /\ UNCHANGED <<db, input, calls>>
       ELSE LET a == PutAlterUserWorkAssignmentArgs(BindUserWorkChange(b)) IN
            /\ input' = [input EXCEPT ![r] = BindUserWorkChange(b)]
            /\ \E ok \in BOOLEAN :
                /\ ok => alter_user_work_assignment_pre(db, a)
                /\ calls' = [calls EXCEPT ![r] =
                                Append(@, Call("alter_user_work_assignment", a, ok))]
                /\ IF ok
                   THEN /\ db' = alter_user_work_assignment(db, a)
                        /\ Finish(r, <<TextJSON(StatusOK, MsgAssigned)>>)
                   ELSE /\ Finish(r, checkErr(StatusBadRequest, TRUE, MsgAssignFailed))
                        /\ UNCHANGED db

\* ------------------------------------------------------- request bodies
\* Lists of at most MaxRoles deltas drawn from D.
RoleLists(D) == UNION {[1..n -> D] : n \in 0..MaxRoles}

\* The deltas of a userRoles list: pure adds (of a known and of an unknown
\* user), pure removes, mixed and empty ones; each names project 1.
ListDeltas ==
    {[RoleId |-> 1, ProjectId |-> 1, UsersAdded |-> a, UsersRemoved |-> d] :
        a \in {{}, {1}, {3}}, d \in {{}, {1}}}

\* A body BindJSON rejects.
Malformed(b) == [b EXCEPT !.wellFormed = FALSE]

NewProjectBody(roles) ==
    [wellFormed |-> TRUE, projectName |-> Some("new"), description |-> Some("new"),
     createdBy |-> Some(1), startDate |-> Some("2025-02-01"),
     targetDate |-> Some("2025-03-01"), picId |-> Some(2), userRoles |-> roles]

AlterProjectBody(id, name, roles) ==
    [wellFormed |-> TRUE, projectId |-> id, projectName |-> name, description |-> None,
     startDate |-> None, targetDate |-> Some("2025-03-01"), picId |-> None,
     userRoles |-> roles]

NewProjectBodies ==
    {NewProjectBody(l) : l \in RoleLists(ListDeltas)} \cup {Malformed(NewProjectBody(<<>>))}

AlterProjectBodies ==
    {AlterProjectBody(id, n, l) :
        id \in {Some(1), Some(2)}, n \in {None, Some("new")}, l \in RoleLists(ListDeltas)}
    \cup {Malformed(AlterProjectBody(None, None, <<>>))}

UserRoleChangeBodies ==
    {[wellFormed |-> w, roleId |-> Some(ro), projectId |-> Some(p),
      usersAdded |-> a, usersRemoved |-> d] :
        w \in {TRUE}, ro \in RoleIds, p \in {1, 2},
        a \in SUBSET UserIds, d \in SUBSET UserIds}
    \cup {[wellFormed |-> FALSE, roleId |-> None, projectId |-> None,
           usersAdded |-> {}, usersRemoved |-> {}]}

UserWorkChangeBodies ==
    {[wellFormed |-> TRUE, workId |-> Some(w), usersAdded |-> a, usersRemoved |-> d] :
        w \in {1, 2}, a \in SUBSET UserIds, d \in SUBSET UserIds}
    \cup {[wellFormed |-> FALSE, workId |-> None, usersAdded |-> {}, usersRemoved |-> {}]}

\* An AlterWork body naming work w with the given field values and user sets.
AlterWorkBody(w, n, de, sd, td, pic, cs, pr, eh, tr, ac, d, a) ==
    [wellFormed |-> TRUE, workId |-> w, workName |-> n, description |-> de,
     startDate |-> sd, targetDate |-> td, picId |-> pic, currentState |-> cs,
     priorityId |-> pr, estimatedHours |-> eh, trackerId |-> tr, activityId |-> ac,
     usersRemoved |-> d, usersAdded |-> a]

\* AlterWork bodies that change the assignment and at most the name.
AlterWorkMemberBodies ==
    {AlterWorkBody(Some(1), n, None, None, None, None, None, None, None, None, None, d, a) :
        n \in {None, Some("new")}, d \in SUBSET UserIds, a \in SUBSET UserIds}
    \cup {Malformed(AlterWorkBody(None, None, None, None, None, None, None, None, None,
                                  None, None, {}, {}))}

\* --------------------------------------------------------- initial state
\* No request has arrived on slot r yet.
Idle(r) == pc[r] = "idle"

NoInput == [none |-> TRUE]

\* The row of a project that existed before the process started.
OldProject ==
    [name |-> "old", description |-> "old", createdBy |-> 1,
     startDate |-> "2025-01-01", targetDate |-> "2025-01-31", picId |-> 1]

InitReqs ==
    /\ body = [r \in Reqs |-> NoInput]
    /\ pc = [r \in Reqs |-> "idle"]
    /\ handler = [r \in Reqs |-> "none"]
    /\ input = [r \in Reqs |-> NoInput]
    /\ projectIdTemp = [r \in Reqs |-> ZeroInt]
    /\ idx = [r \in Reqs |-> 1]
    /\ resp = [r \in Reqs |-> <<>>]
    /\ calls = [r \in Reqs |-> <<>>]

\* The rows of the backlog and the work item that existed before the process started.
OldBacklog ==
    [projectId |-> 1, name |-> "old", description |-> "old", startDate |-> "2025-01-01",
     targetDate |-> "2025-01-31", createdBy |-> 1, picId |-> 1, priorityId |-> 1]

OldWork ==
    [backlogId |-> 1, name |-> "old", priorityId |-> 1, picId |-> Some(1),
     description |-> "old", currentState |-> 1, createdBy |-> 1,
     targetDate |-> "2025-01-31", startDate |-> "2025-01-01", trackerId |-> 1,
     activityId |-> 1, estimatedHours |-> 1]

EmptyStore ==
    [projects |-> <<>>, backlogs |-> <<>>, works |-> <<>>,
     user_project_role |-> {}, user_work_assignment |-> {}]

\* A store holding project 1, its backlog 1 and the work item 1 assigned to user 1.
OldStore ==
    [projects |-> <<OldProject>>, backlogs |-> <<OldBacklog>>, works |-> <<OldWork>>,
     user_project_role |-> {}, user_work_assignment |-> {<<1, 1>>}]

\* The old store with any membership of the roles of project 1.
Init ==
    /\ InitReqs
    /\ \E m \in SUBSET {<<1, ro, u>> : ro \in RoleIds, u \in Users} :
        db = [OldStore EXCEPT !.user_project_role = m]

\* One request, served alone.
Next ==
    \/ Idle(FirstReq) /\ \E b \in NewProjectBodies : PostNewProjectCreate(FirstReq, b)
    \/ PostNewProjectRange(FirstReq)
    \/ Idle(FirstReq) /\ \E b \in AlterProjectBodies : PutAlterProjectUpdate(FirstReq, b)
    \/ PutAlterProjectRange(FirstReq)
    \/ Idle(FirstReq) /\ \E b \in UserRoleChangeBodies : PutUserProjectRole(FirstReq, b)
    \/ Idle(FirstReq) /\ \E b \in UserWorkChangeBodies : putAlterUserWorkAssignment(FirstReq, b)
    \/ Idle(FirstReq) /\ \E b \in AlterWorkMemberBodies : putAlterWork(FirstReq, b)

Spec == Init /\ [][Next]_vars

\* ------------------------------------------------- concurrent creations
\* The delta of the concurrent createProject request r: a pure add whose role and
\* user tell the requests apart, naming a project id another request may be given.
ConcDelta(r) ==
    [RoleId |-> IF r % 2 = 1 THEN 1 ELSE 2, ProjectId |-> (r % NumReqs) + 1,
     UsersAdded |-> {IF r % 2 = 1 THEN 1 ELSE 2}, UsersRemoved |-> {}]

ConcBodies(r) == {NewProjectBody(l) : l \in RoleLists({ConcDelta(r)})}

InitConc ==
    /\ InitReqs
    /\ db = EmptyStore

NextConc ==
    \/ \E r \in Reqs : Idle(r) /\ \E b \in ConcBodies(r) : PostNewProjectCreate(r, b)
    \/ \E r \in Reqs : PostNewProjectRange(r)

SpecConc == InitConc /\ [][NextConc]_vars

\* ------------------------------------------- creations and field updates
\* A field of a creation body: missing or supplied.
Opt(v) == {None, Some(v)}
\* A pointer field of an update body: missing, supplied as Go's zero value, or
\* supplied with a new value.
Opt3(z, v) == {None, Some(z), Some(v)}

NewDate == "2025-03-01"

FieldNewProjectBodies ==
    {[wellFormed |-> TRUE, projectName |-> n, description |-> de, createdBy |-> cb,
      startDate |-> sd, targetDate |-> td, picId |-> pic, userRoles |-> <<>>] :
        n \in Opt("new"), de \in Opt("new"), cb \in Opt(1), sd \in Opt(NewDate),
        td \in Opt(NewDate), pic \in Opt(2)}
    \cup {Malformed(NewProjectBody(<<>>))}

FieldNewBacklogBodies ==
    {[wellFormed |-> w, projectId |-> p, backlogName |-> n, description |-> de,
      startDate |-> sd, targetDate |-> td, createdBy |-> cb, picId |-> pic,
      priorityId |-> pr] :
        w \in {TRUE}, p \in Opt(1), n \in Opt("new"), de \in Opt("new"),
        sd \in Opt(NewDate), td \in Opt(NewDate), cb \in Opt(1), pic \in Opt(2),
        pr \in Opt(2)}
    \cup {[wellFormed |-> FALSE, projectId |-> None, backlogName |-> None,
           description |-> None, startDate |-> None, targetDate |-> None,
           createdBy |-> None, picId |-> None, priorityId |-> None]}

FieldNewWorkBodies ==
    {[wellFormed |-> w, backlogId |-> bl, workName |-> n, description |-> de,
      startDate |-> sd, targetDate |-> td, picId |-> pic, currentState |-> cs,
      createdBy |-> cb, priorityId |-> pr, estimatedHours |-> eh, trackerId |-> tr,
      activityId |-> ac, usersAdded |-> a] :
        w \in {TRUE}, bl \in Opt(1), n \in Opt("new"), de \in Opt("new"),
        sd \in Opt(NewDate), td \in Opt(NewDate), pic \in Opt(2), cs \in Opt(2),
        cb \in Opt(1), pr \in Opt(2), eh \in Opt(2), tr \in Opt(2), ac \in Opt(2),
        a \in {{}, {2}}}
    \cup {[wellFormed |-> FALSE, backlogId |-> None, workName |-> None,
           description |-> None, startDate |-> None, targetDate |-> None,
           picId |-> None, currentState |-> None, createdBy |-> None,
           priorityId |-> None, estimatedHours |-> None, trackerId |-> None,
           activityId |-> None, usersAdded |-> {}]}

FieldAlterProjectBodies ==
    {[wellFormed |-> TRUE, projectId |-> id, projectName |-> n, description |-> de,
      startDate |-> sd, targetDate |-> td, picId |-> pic, userRoles |-> <<>>] :
        id \in {None, Some(1), Some(2)}, n \in Opt3(ZeroString, "new"),
        de \in Opt3(ZeroString, "new"), sd \in Opt3(ZeroTime, NewDate),
        td \in Opt3(ZeroTime, NewDate), pic \in Opt3(ZeroInt, 2)}
    \cup {Malformed(AlterProjectBody(None, None, <<>>))}

FieldAlterBacklogBodies ==
    {[wellFormed |-> w, backlogId |-> id, backlogName |-> n, description |-> de,
      startDate |-> sd, targetDate |-> td, picId |-> pic, priorityId |-> pr] :
        w \in {TRUE}, id \in {None, Some(1)}, n \in Opt3(ZeroString, "new"),
        de \in Opt3(ZeroString, "new"), sd \in Opt3(ZeroTime, NewDate),
        td \in Opt3(ZeroTime, NewDate), pic \in Opt3(ZeroInt, 2),
        pr \in Opt3(ZeroInt, 2)}
    \cup {[wellFormed |-> FALSE, backlogId |-> None, backlogName |-> None,
           description |-> None, startDate |-> None, targetDate |-> None,
           picId |-> None, priorityId |-> None]}

FieldAlterWorkBodies ==
    {AlterWorkBody(Some(1), n, de, sd, td, pic, cs, pr, eh, tr, ac, {}, {}) :
        n \in Opt3(ZeroString, "new"), de \in Opt3(ZeroString, "new"),
        sd \in Opt3(ZeroTime, NewDate), td \in Opt3(ZeroTime, NewDate),
        pic \in Opt3(ZeroInt, 2), cs \in Opt3(ZeroInt, 2), pr \in Opt3(ZeroInt, 2),
        eh \in Opt3(ZeroInt, 2), tr \in Opt3(ZeroInt, 2), ac \in Opt3(ZeroInt, 2)}
    \cup {Malformed(AlterWorkBody(None, None, None, None, None, None, None, None, None,
                                  None, None, {}, {}))}

InitFields ==
    /\ InitReqs
    /\ db = OldStore

\* One creation or one partial update, served alone.
NextFields ==
    \/ Idle(FirstReq) /\ \E b \in FieldNewProjectBodies : PostNewProjectCreate(FirstReq, b)
    \/ PostNewProjectRange(FirstReq)
    \/ Idle(FirstReq) /\ \E b \in FieldNewBacklogBodies : postNewBacklog(FirstReq, b)
    \/ Idle(FirstReq) /\ \E b \in FieldNewWorkBodies : postNewWork(FirstReq, b)
    \/ Idle(FirstReq) /\ \E b \in FieldAlterProjectBodies : PutAlterProjectUpdate(FirstReq, b)
    \/ PutAlterProjectRange(FirstReq)
    \/ Idle(FirstReq) /\ \E b \in FieldAlterBacklogBodies : putAlterBacklog(FirstReq, b)
    \/ Idle(FirstReq) /\ \E b \in FieldAlterWorkBodies : putAlterWork(FirstReq, b)

SpecFields == InitFields /\ [][NextFields]_vars

\* --------------------------------------------------- long role lists
\* The deltas of a long userRoles list: pure adds told apart by role and user, a
\* pure add of a user the store does not know, and a mixed delta the loops skip.
LoopDeltas ==
    {[RoleId |-> ro, ProjectId |-> 1, UsersAdded |-> {u}, UsersRemoved |-> {}] :
        ro \in RoleIds, u \in Users}
    \cup {[RoleId |-> 1, ProjectId |-> 1, UsersAdded |-> {3}, UsersRemoved |-> {}],
          [RoleId |-> 1, ProjectId |-> 1, UsersAdded |-> {1}, UsersRemoved |-> {2}]}

\* Lists long enough to hold a delta before and a delta after a failing one.
LoopLists == UNION {[1..n -> LoopDeltas] : n \in 0..(MaxRoles + 1)}

LoopNewProjectBodies == {NewProjectBody(l) : l \in LoopLists}
LoopAlterProjectBodies == {AlterProjectBody(Some(1), None, l) : l \in LoopLists}

InitLoop ==
    /\ InitReqs
    /\ db = OldStore

\* One createProject or one alterProject request with a long role list, served alone.
NextLoop ==
    \/ Idle(FirstReq) /\ \E b \in LoopNewProjectBodies : PostNewProjectCreate(FirstReq, b)
    \/ PostNewProjectRange(FirstReq)
    \/ Idle(FirstReq) /\ \E b \in LoopAlterProjectBodies : PutAlterProjectUpdate(FirstReq, b)
    \/ PutAlterProjectRange(FirstReq)

SpecLoop == InitLoop /\ [][NextLoop]_vars

\* ------------------------------------------------------------ properties
\* Request r's first store call was the named parent procedure and succeeded.
ParentOK(r, h, proc) ==
    /\ handler[r] = h
    /\ Len(calls[r]) >= 1
    /\ calls[r][1].proc = proc
    /\ calls[r][1].ok

Created(r) == ParentOK(r, "postNewProject", "post_new_project")

\* The role calls of request r, in the order issued.
RoleCalls(r) == SelectSeq(calls[r], LAMBDA c : c.proc = "alter_user_project_role")

\* A delta that adds somebody and removes nobody, written out.
PureAdd(delta) == delta.UsersAdded # {} /\ delta.UsersRemoved = {}

\* Request r ended on a failed role call after its parent call succeeded.
RoleFailure(r) ==
    /\ pc[r] = "done"
    /\ Len(calls[r]) >= 2
    /\ calls[r][1].ok
    /\ ~calls[r][Len(calls[r])].ok

\* The elements of r's userRoles list the range loop has gone through.
Processed(r) ==
    SubSeq(input[r].UserRoles, 1, IF RoleFailure(r) THEN idx[r] ELSE idx[r] - 1)

\* C10: under any interleaving of createProject requests, a request's role calls
\* come after its own successful creation, follow the order of its role list one
\* per list element, and carry the project id the store returned to that request,
\* whatever id the delta named; no two requests are given the same project, and
\* every membership in the store is a grant of the request that created the project.
C10_RolesFollowOwnCreation ==
    /\ \A r \in Reqs :
        /\ RoleCalls(r) # <<>> => Created(r) /\ pc[r] \in {"reconciling", "done"}
        /\ calls[r] # <<>> /\ handler[r] = "postNewProject" =>
              /\ calls[r][1].proc = "post_new_project"
              /\ \A k \in 2..Len(calls[r]) :
                    /\ calls[r][k].proc = "alter_user_project_role"
                    /\ calls[r][k - 1].ok
                    /\ k - 1 <= Len(input[r].UserRoles)
                    /\ calls[r][k].args.projectId = projectIdTemp[r]
                    /\ calls[r][k].args.roleId = input[r].UserRoles[k - 1].RoleId
                    /\ calls[r][k].args.usersAdded = input[r].UserRoles[k - 1].UsersAdded
                    /\ calls[r][k].args.usersRemoved = input[r].UserRoles[k - 1].UsersRemoved
        /\ Created(r) => projectIdTemp[r] \in DOMAIN db.projects
    /\ \A r, q \in Reqs : Created(r) /\ Created(q) /\ r # q => projectIdTemp[r] # projectIdTemp[q]
    /\ \A m \in db.user_project_role :
        \E r \in Reqs :
            /\ Created(r)
            /\ m[1] = projectIdTemp[r]
            /\ \E i \in 1..Len(input[r].UserRoles) :
                  /\ input[r].UserRoles[i].RoleId = m[2]
                  /\ m[3] \in input[r].UserRoles[i].UsersAdded

\* Two requests are between role grants at once, each with a grant applied to its
\* own project although its delta named another project.
C10_Witness ==
    \E r, q \in Reqs :
        /\ r # q
        /\ pc[r] = "reconciling" /\ pc[q] = "reconciling"
        /\ Len(calls[r]) >= 2 /\ calls[r][2].ok
        /\ Len(calls[q]) >= 2 /\ calls[q][2].ok
        /\ input[r].UserRoles[1].ProjectId # projectIdTemp[r]
        /\ input[q].UserRoles[1].ProjectId # projectIdTemp[q]
        /\ <<projectIdTemp[r], input[r].UserRoles[1].RoleId, 1>> \in db.user_project_role
        /\ <<projectIdTemp[q], input[q].UserRoles[1].RoleId, 2>> \in db.user_project_role

\* C1 (as the code has it): when post_new_project succeeded and a role call then
\* failed, postNewProject writes exactly one response, 400 with the fixed error
\* text "Project created successfully but Failed to set user project role"; it
\* differs from the success response and from the creation-failure response, and
\* its JSON object holds the key "error" alone (no project id, no failing delta).
C1_PartialFailureReported ==
    \A r \in Reqs :
        handler[r] = "postNewProject" /\ pc[r] = "done" /\ calls[r] # <<>> =>
            /\ RoleFailure(r) =>
                  /\ Len(resp[r]) = 1
                  /\ resp[r][1].status = 400
                  /\ DOMAIN resp[r][1].json = {"error"}
                  /\ resp[r][1].json.error =
                        "Project created successfully but Failed to set user project role"
            /\ ~calls[r][1].ok =>
                  /\ resp[r] = <<[status |-> 400, json |-> [error |-> "Failed to create project"]]>>
            /\ (\A k \in 1..Len(calls[r]) : calls[r][k].ok) =>
                  /\ resp[r] = <<[status |-> 200, json |-> [text |-> "Project created successfully"]]>>

\* A postNewProject request whose creation succeeded and whose second role grant
\* failed has been answered.
C1_Witness ==
    \E r \in Reqs :
        /\ handler[r] = "postNewProject"
        /\ RoleFailure(r)
        /\ Len(calls[r]) = 3
        /\ resp[r] # <<>>

\* C1 as stated: the response to a partial failure carries the created ProjectId
\* and identifies the role delta that failed.
C1_CarriesProjectIdAndDelta ==
    \A r \in Reqs :
        handler[r] = "postNewProject" /\ RoleFailure(r) =>
            /\ Len(resp[r]) = 1
            /\ \E k \in DOMAIN resp[r][1].json :
                  resp[r][1].json[k] = ToString(projectIdTemp[r])
            /\ \E k \in DOMAIN resp[r][1].json :
                  \/ resp[r][1].json[k] = ToString(idx[r])
                  \/ resp[r][1].json[k] = ToString(input[r].UserRoles[idx[r]].RoleId)

\* C2: once the parent write of a request has succeeded it stays in the store in
\* every later state of the request, a failed role call included: the created
\* project is readable with the values postNewProject sent, and each field
\* putAlterProject sent holds its new value.
C2_ParentWriteStays ==
    \A r \in Reqs :
        /\ Created(r) =>
              /\ projectIdTemp[r] \in DOMAIN db.projects
              /\ db.projects[projectIdTemp[r]].name = input[r].ProjectName
              /\ db.projects[projectIdTemp[r]].description = input[r].Description
              /\ db.projects[projectIdTemp[r]].createdBy = input[r].CreatedBy
              /\ db.projects[projectIdTemp[r]].targetDate = input[r].TargetDate
              /\ db.projects[projectIdTemp[r]].picId = input[r].PicId
        /\ ParentOK(r, "putAlterProject", "put_alter_project") =>
              /\ input[r].ProjectId # None
              /\ input[r].ProjectId[1] \in DOMAIN db.projects
              /\ LET row == db.projects[input[r].ProjectId[1]] IN
                    /\ input[r].ProjectName # None => row.name = input[r].ProjectName[1]
                    /\ input[r].Description # None => row.description = input[r].Description[1]
                    /\ input[r].TargetDate # None => row.targetDate = input[r].TargetDate[1]
                    /\ input[r].PicId # None => row.picId = input[r].PicId[1]

\* A putAlterProject request that renamed the project has ended on a failed role
\* call, and the new name is in the store.
C2_Witness ==
    \E r \in Reqs :
        /\ ParentOK(r, "putAlterProject", "put_alter_project")
        /\ RoleFailure(r)
        /\ input[r].ProjectName = Some("new")
        /\ db.projects[input[r].ProjectId[1]].name = "new"

\* C3: in postNewProject, of the list elements the loop has gone through, exactly
\* the deltas with a non-empty usersAdded and an empty usersRemoved were sent to
\* the store, in list order; the others cost no store call and no failure, so a
\* request all of whose calls succeeded ends in the success response.
C3_OnlyPureAddsSent ==
    \A r \in Reqs :
        Created(r) =>
            LET sent == SelectSeq(Processed(r), PureAdd)
                role == RoleCalls(r)
            IN  /\ Len(role) = Len(sent)
                /\ Len(calls[r]) = 1 + Len(role)
                /\ \A j \in 1..Len(role) :
                      /\ role[j].args.roleId = sent[j].RoleId
                      /\ role[j].args.usersAdded = sent[j].UsersAdded
                      /\ role[j].args.usersRemoved = {}
                /\ pc[r] = "done" /\ (\A k \in 1..Len(calls[r]) : calls[r][k].ok) =>
                      /\ Len(Processed(r)) = Len(input[r].UserRoles)
                      /\ resp[r] = <<[status |-> 200,
                                      json |-> [text |-> "Project created successfully"]]>>

\* A creation with a mixed delta followed by a pure add ended in success with the
\* one role call of the pure add.
C3_Witness ==
    \E r \in Reqs :
        /\ Created(r)
        /\ pc[r] = "done"
        /\ Len(input[r].UserRoles) = 2
        /\ input[r].UserRoles[1].UsersRemoved # {}
        /\ input[r].UserRoles[1].UsersAdded # {}
        /\ PureAdd(input[r].UserRoles[2])
        /\ Len(calls[r]) = 2
        /\ resp[r][1].status = 200

\* C4: when post_new_project fails, postNewProject answers 400 "Failed to create
\* project" and ends; the step of the failed call and every later step leave the
\* store as it was (no project, no membership change) and the request issues no
\* role call.
C4_CreationFailureEnds ==
    [][\A r \in Reqs :
          (handler'[r] = "postNewProject" /\ calls'[r] # <<>> /\ ~calls'[r][1].ok) =>
              /\ db' = db
              /\ pc'[r] = "done"
              /\ Len(calls'[r]) = 1
              /\ resp'[r] = <<[status |-> 400, json |-> [error |-> "Failed to create project"]]>>]_vars

\* A creation carrying a pure add has failed in the store and has been answered.
C4_Witness ==
    \E r \in Reqs :
        /\ handler[r] = "postNewProject"
        /\ calls[r] # <<>>
        /\ ~calls[r][1].ok
        /\ \E i \in 1..Len(input[r].UserRoles) : PureAdd(input[r].UserRoles[i])
        /\ resp[r] # <<>>

\* C6: a successful putUserProjectRole whose usersAdded and usersRemoved are
\* disjoint leaves the (projectId, roleId) relation with exactly
\* (prior \cup usersAdded) \ usersRemoved and every other relation as it was.
C6_ReconcileIsUnionMinus ==
    [][\A r \in Reqs :
          (/\ pc[r] = "idle"
           /\ handler'[r] = "putUserProjectRole"
           /\ calls'[r] # <<>>
           /\ calls'[r][1].ok
           /\ input'[r].UsersAdded \cap input'[r].UsersRemoved = {}) =>
              LET p == input'[r].ProjectId
                  ro == input'[r].RoleId
              IN  /\ Members(db', p, ro) =
                        (Members(db, p, ro) \cup input'[r].UsersAdded) \ input'[r].UsersRemoved
                  /\ \A q \in DOMAIN db.projects, so \in RoleIds :
                        <<q, so>> # <<p, ro>> => Members(db', q, so) = Members(db, q, so)]_vars

\* A putUserProjectRole that added one user and removed another has succeeded.
C6_Witness ==
    \E r \in Reqs :
        /\ handler[r] = "putUserProjectRole"
        /\ pc[r] = "done"
        /\ calls[r] # <<>>
        /\ calls[r][1].ok
        /\ input[r].UsersAdded = {2}
        /\ input[r].UsersRemoved = {1}
        /\ Members(db, input[r].ProjectId, input[r].RoleId) = {2}
        /\ Members(db, input[r].ProjectId, 3 - input[r].RoleId) # {}

\* The partial update of request r reached the store and succeeded.
Updated(r, h) == handler[r] = h /\ calls[r] # <<>> /\ calls[r][1].ok

\* Field f of the payload of request r round-trips: present, the row read back
\* holds its value and the store call carried it; absent, the row holds the old
\* value and the store call carried no value.
RoundTrips(r, f, col, arg, row, old) ==
    IF body[r][f] # None
    THEN row[col] = body[r][f][1] /\ calls[r][1].args[arg] = body[r][f]
    ELSE row[col] = old[col] /\ calls[r][1].args[arg] = None

\* C5: after a successful putAlterProject, putAlterBacklog or putAlterWork the
\* entity read back holds the payload's value for every updatable attribute the
\* payload carries (startDate included) and the previous value for every
\* attribute it lacks, and a lacking field reaches the store as absent.
C5_FieldMaskRoundTrip ==
    \A r \in Reqs :
        /\ Updated(r, "putAlterProject") =>
              LET row == db.projects[body[r].projectId[1]] IN
              /\ RoundTrips(r, "projectName", "name", "name", row, OldProject)
              /\ RoundTrips(r, "description", "description", "description", row, OldProject)
              /\ RoundTrips(r, "targetDate", "targetDate", "targetDate", row, OldProject)
              /\ RoundTrips(r, "picId", "picId", "picId", row, OldProject)
              /\ IF body[r].startDate # None
                 THEN row.startDate = body[r].startDate[1]
                 ELSE row.startDate = OldProject.startDate
        /\ Updated(r, "putAlterBacklog") =>
              LET row == db.backlogs[body[r].backlogId[1]] IN
              /\ RoundTrips(r, "backlogName", "name", "name", row, OldBacklog)
              /\ RoundTrips(r, "description", "description", "description", row, OldBacklog)
              /\ RoundTrips(r, "startDate", "startDate", "startDate", row, OldBacklog)
              /\ RoundTrips(r, "targetDate", "targetDate", "targetDate", row, OldBacklog)
              /\ RoundTrips(r, "picId", "picId", "picId", row, OldBacklog)
              /\ RoundTrips(r, "priorityId", "priorityId", "priorityId", row, OldBacklog)
        /\ Updated(r, "putAlterWork") =>
              LET row == db.works[body[r].workId[1]] IN
              /\ RoundTrips(r, "workName", "name", "name", row, OldWork)
              /\ RoundTrips(r, "description", "description", "description", row, OldWork)
              /\ RoundTrips(r, "startDate", "startDate", "startDate", row, OldWork)
              /\ RoundTrips(r, "targetDate", "targetDate", "targetDate", row, OldWork)
              /\ RoundTrips(r, "currentState", "currentState", "currentState", row, OldWork)
              /\ RoundTrips(r, "priorityId", "priorityId", "priorityId", row, OldWork)
              /\ RoundTrips(r, "estimatedHours", "estimatedHours", "estimatedHours", row, OldWork)
              /\ RoundTrips(r, "trackerId", "trackerId", "trackerId", row, OldWork)
              /\ RoundTrips(r, "activityId", "activityId", "activityId", row, OldWork)
              /\ calls[r][1].args.picId = body[r].picId
              /\ row.picId = IF body[r].picId # None THEN body[r].picId ELSE OldWork.picId

\* The handlers that reconcile one delta and nothing else.
DeltaHandlers == {"putUserProjectRole", "putAlterUserWorkAssignment"}

\* Request r carried a well-formed delta with both user sets empty.
EmptyDelta(b) == b.wellFormed /\ b.usersAdded = {} /\ b.usersRemoved = {}

\* C7 (as the code has it): putUserProjectRole and putAlterUserWorkAssignment send
\* a delta with both sets empty to the store like any other, in exactly one call
\* carrying the two empty sets; when the call succeeds the handler answers 200 and
\* the store is as before, and when the store rejects it (an unknown project or
\* work item, say) the handler answers 400 with its failure text.
C7_EmptyDeltaIsOneStoreCall ==
    [][\A r \in Reqs :
          (pc[r] = "idle" /\ handler'[r] \in DeltaHandlers /\ EmptyDelta(body'[r])) =>
              /\ pc'[r] = "done"
              /\ Len(calls'[r]) = 1
              /\ calls'[r][1].args.usersAdded = {}
              /\ calls'[r][1].args.usersRemoved = {}
              /\ db' = db
              /\ Len(resp'[r]) = 1
              /\ IF calls'[r][1].ok
                 THEN resp'[r][1].status = 200
                 ELSE /\ resp'[r][1].status = 400
                      /\ resp'[r][1].json.error \in
                            {"Failed to alter user project role",
                             "Failed to alter user work assignment"}]_vars

\* An empty delta for an existing relation went to the store and was answered 200.
C7_Witness ==
    \E r \in Reqs :
        /\ handler[r] = "putUserProjectRole"
        /\ pc[r] = "done"
        /\ EmptyDelta(body[r])
        /\ Len(calls[r]) = 1
        /\ calls[r][1].ok
        /\ resp[r][1].status = 200
        /\ Members(db, input[r].ProjectId, input[r].RoleId) # {}

\* C7 as stated: an empty delta succeeds without any call to the store.
C7_EmptyDeltaNoStoreCall ==
    \A r \in Reqs :
        (handler[r] \in DeltaHandlers /\ pc[r] = "done" /\ EmptyDelta(body[r])) =>
            /\ calls[r] = <<>>
            /\ resp[r][1].status = 200

\* The creation handlers, and the fields of their bodies the spec calls required.
CreationHandlers == {"postNewProject", "postNewBacklog", "postNewWork"}

RequiredFields(h) ==
    CASE h = "postNewProject" ->
            {"projectName", "description", "createdBy", "startDate", "targetDate", "picId"}
      [] h = "postNewBacklog" ->
            {"projectId", "backlogName", "description", "startDate", "targetDate",
             "createdBy", "picId", "priorityId"}
      [] h = "postNewWork" ->
            {"backlogId", "workName", "description", "startDate", "targetDate",
             "currentState", "createdBy", "priorityId", "estimatedHours", "trackerId",
             "activityId"}

MissingRequired(r) ==
    \E f \in RequiredFields(handler[r]) : body[r][f] = None

\* C8 (as the code has it): a creation handler rejects before any store call, with
\* 400 "Invalid input", only a body BindJSON cannot decode; a decodable body that
\* lacks required fields is sent to the store in one creation call with Go's zero
\* value ("", 0, the zero time) in place of each missing field.
C8_OnlyUndecodableRejected ==
    \A r \in Reqs :
        handler[r] \in CreationHandlers =>
            IF ~body[r].wellFormed
            THEN /\ calls[r] = <<>>
                 /\ db = OldStore
                 /\ resp[r] = <<[status |-> 400, json |-> [error |-> "Invalid input"]]>>
            ELSE /\ calls[r] # <<>>
                 /\ LET a == calls[r][1].args
                        b == body[r]
                    IN  CASE handler[r] = "postNewProject" ->
                                /\ a.name = OrZero(b.projectName, "")
                                /\ a.description = OrZero(b.description, "")
                                /\ a.createdBy = OrZero(b.createdBy, 0)
                                /\ a.targetDate = OrZero(b.targetDate, "0001-01-01T00:00:00Z")
                                /\ a.picId = OrZero(b.picId, 0)
                          [] handler[r] = "postNewBacklog" ->
                                /\ a.projectId = OrZero(b.projectId, 0)
                                /\ a.name = OrZero(b.backlogName, "")
                                /\ a.description = OrZero(b.description, "")
                                /\ a.startDate = OrZero(b.startDate, "0001-01-01T00:00:00Z")
                                /\ a.targetDate = OrZero(b.targetDate, "0001-01-01T00:00:00Z")
                                /\ a.createdBy = OrZero(b.createdBy, 0)
                                /\ a.picId = OrZero(b.picId, 0)
                                /\ a.priorityId = OrZero(b.priorityId, 0)
                          [] handler[r] = "postNewWork" ->
                                /\ a.backlogId = OrZero(b.backlogId, 0)
                                /\ a.name = OrZero(b.workName, "")
                                /\ a.description = OrZero(b.description, "")
                                /\ a.startDate = OrZero(b.startDate, "0001-01-01T00:00:00Z")
                                /\ a.targetDate = OrZero(b.targetDate, "0001-01-01T00:00:00Z")
                                /\ a.picId = b.picId
                                /\ a.currentState = OrZero(b.currentState, 0)
                                /\ a.createdBy = OrZero(b.createdBy, 0)
                                /\ a.priorityId = OrZero(b.priorityId, 0)
                                /\ a.estimatedHours = OrZero(b.estimatedHours, 0)
                                /\ a.trackerId = OrZero(b.trackerId, 0)
                                /\ a.activityId = OrZero(b.activityId, 0)
                                /\ a.usersAdded = b.usersAdded

\* A project whose body had no projectName and no createdBy is in the store, with
\* the empty name and creator 0.
C8_Witness ==
    \E r \in Reqs :
        /\ handler[r] = "postNewProject"
        /\ Created(r)
        /\ body[r].projectName = None
        /\ body[r].createdBy = None
        /\ body[r].description # None
        /\ db.projects[projectIdTemp[r]].name = ""
        /\ db.projects[projectIdTemp[r]].createdBy = 0

\* C8 as stated: a creation payload that lacks a required field is rejected with
\* a validation error before any store call, and nothing is created.
C8_MissingFieldRejected ==
    \A r \in Reqs :
        (handler[r] \in CreationHandlers /\ body[r].wellFormed /\ MissingRequired(r)) =>
            /\ calls[r] = <<>>
            /\ db = OldStore
            /\ Len(resp[r]) = 1
            /\ resp[r][1].status = 400

\* The store procedures that write a membership relation.
MembershipProcs == {"alter_user_project_role", "alter_user_work_assignment", "put_alter_work"}

\* C9 (as the code has it): postNewProject and putAlterProject issue a membership
\* write only for a delta that removes nobody, so never for one naming a user in
\* both sets; putUserProjectRole, putAlterUserWorkAssignment and putAlterWork make
\* no such test and hand both sets to the store as received, overlap included.
C9_OverlapKeptOutOnlyByProjectPaths ==
    \A r \in Reqs :
        /\ handler[r] \in {"postNewProject", "putAlterProject"} =>
              \A k \in 1..Len(calls[r]) :
                  calls[r][k].proc \in MembershipProcs =>
                      /\ calls[r][k].args.usersRemoved = {}
                      /\ calls[r][k].args.usersAdded # {}
        /\ (/\ handler[r] \in {"putUserProjectRole", "putAlterUserWorkAssignment", "putAlterWork"}
            /\ body[r].wellFormed) =>
              /\ Len(calls[r]) = 1
              /\ calls[r][1].proc \in MembershipProcs
              /\ calls[r][1].args.usersAdded = body[r].usersAdded
              /\ calls[r][1].args.usersRemoved = body[r].usersRemoved

\* A putUserProjectRole naming user 1 in both sets was written to the store.
C9_Witness ==
    \E r \in Reqs :
        /\ handler[r] = "putUserProjectRole"
        /\ body[r].wellFormed
        /\ body[r].usersAdded = {1}
        /\ body[r].usersRemoved = {1}
        /\ calls[r][1].ok
        /\ 1 \in Members(db, input[r].ProjectId, input[r].RoleId)

\* C9 as stated: no membership write is issued for a delta in which a user id is
\* in both usersAdded and usersRemoved.
C9_NoOverlapWritten ==
    \A r \in Reqs :
        \A k \in 1..Len(calls[r]) :
            calls[r][k].proc \in MembershipProcs =>
                calls[r][k].args.usersAdded \cap calls[r][k].args.usersRemoved = {}

\* ----------------------------------------------------------------- C11
ProjectHandlers == {"postNewProject", "putAlterProject"}

\* The project a request's role calls are for: the one it created, or the one
\* its body names.
TargetProject(r) ==
    IF handler[r] = "postNewProject" THEN projectIdTemp[r] ELSE input[r].ProjectId[1]

\* The memberships a role call asks the store to add.
Grants(c) == {<<c.args.projectId, c.args.roleId, u>> : u \in c.args.usersAdded}

\* The memberships the successful role calls of r added.
Applied(r) ==
    UNION {Grants(RoleCalls(r)[k]) : k \in {j \in 1..Len(RoleCalls(r)) : RoleCalls(r)[j].ok}}

\* C11: in postNewProject and putAlterProject the first role call that fails ends
\* the request.  The role calls of a request are, in order, the pure-add deltas
\* of its list up to some point, and only the last of them can have failed;
\* every delta applied before it is in the store; once a role call has failed
\* the request is over, the store holds the grants of the earlier calls and
\* nothing of the failing or any later delta, and the one response of the
\* request is the role failure (400), never followed or replaced by a success.
C11_FirstRoleFailureEnds ==
    \A r \in Reqs :
        handler[r] \in ProjectHandlers /\ calls[r] # <<>> =>
            LET q == SelectSeq(input[r].UserRoles, PureAdd)
                rc == RoleCalls(r)
                n == Len(rc)
            IN  /\ n <= Len(q)
                /\ \A k \in 1..n :
                      rc[k].args = [projectId |-> TargetProject(r), roleId |-> q[k].RoleId,
                                    usersRemoved |-> {}, usersAdded |-> q[k].UsersAdded]
                /\ \A k \in 1..(n - 1) : rc[k].ok
                /\ Applied(r) \subseteq db.user_project_role
                /\ Len(resp[r]) <= 1
                /\ (\E k \in 1..Len(calls[r]) : ~calls[r][k].ok) =>
                      \A i \in 1..Len(resp[r]) : resp[r][i].status # StatusOK
                /\ (n >= 1 /\ ~rc[n].ok) =>
                      /\ pc[r] = "done"
                      /\ resp[r] = <<ErrorJSON(StatusBadRequest, MsgRoleFailed)>>
                      /\ db.user_project_role = Applied(r)

\* A request whose list holds three pure adds is over: the first was applied and
\* is in the store, the second failed, the third was never sent and is not in
\* the store, and the one response is the role failure.
C11_Witness ==
    \E r \in Reqs :
        /\ handler[r] = "putAlterProject"
        /\ pc[r] = "done"
        /\ Len(input[r].UserRoles) = 3
        /\ \A i \in 1..3 : PureAdd(input[r].UserRoles[i])
        /\ \A i, j \in 1..3 : i # j => input[r].UserRoles[i] # input[r].UserRoles[j]
        /\ Len(RoleCalls(r)) = 2
        /\ RoleCalls(r)[1].ok /\ ~RoleCalls(r)[2].ok
        /\ Grants(RoleCalls(r)[1]) # {}
        /\ Grants(RoleCalls(r)[1]) = db.user_project_role
        /\ \A u \in input[r].UserRoles[3].UsersAdded :
              <<1, input[r].UserRoles[3].RoleId, u>> \notin db.user_project_role
        /\ resp[r] = <<ErrorJSON(StatusBadRequest, MsgRoleFailed)>>
====
